---------------------------- MODULE Spec2Model ----------------------------
(***************************************************************************)
(* A model of cli/client.py (P2PClient): the signaling handlers, the       *)
(* data-channel handlers, the command processor and the two asyncio tasks  *)
(* (websocket_loop, input_loop) that main() gathers.                       *)
(*                                                                         *)
(* Every client object is a record cl[c] holding the fields that           *)
(* P2PClient.__init__ creates plus the position of each task.  env[c]      *)
(* holds what is outside the object: the envelopes the server has put on   *)
(* the connection, what the client has written to the connection and to    *)
(* the data channel, the budgets that bound the environment, and history   *)
(* variables that only record what happened.                               *)
(*                                                                         *)
(* One step is one run of a task (or callback) from the point where the    *)
(* event loop resumes it to the point where it suspends again.             *)
(*                                                                         *)
(* Spec lets every task and callback that is ready run between two polls   *)
(* of input_loop, which is how the lanes are meant to be scheduled.        *)
(* LoopSpec schedules them as asyncio does with this code: nothing else    *)
(* runs while input_loop polls.  OrderSpec splits the signaling handler    *)
(* at its awaits and keeps several frames on the connection.  RvSpec is    *)
(* two clients with the rendezvous server between them.                    *)
(***************************************************************************)
EXTENDS Integers, Sequences, FiniteSets, TLC

VARIABLES cl, env

vars == <<cl, env>>

-----------------------------------------------------------------------------
(* Bounds of the model *)

\* The inputs the environment delivers to one client in one run: frames
\* from the server, lines from the user, messages and events from the peer,
\* failures of the connection.
MaxEvents == 6
\* The frames the server has written that the client has not yet received.
MaxInFlight == 1
\* The same, where the order of the frames is what is looked at.
MaxQueue == 3

-----------------------------------------------------------------------------
(* Values *)

None == "None"          \* Python None, JSON null
Absent == "absent"      \* a key that the JSON object does not have

Tokens == {"T1", "T2"}

chunk_size == 16384
retry_delay == 5

\* The files on the sender's disk: name -> size in bytes.
DiskFiles == {"a.txt", "b c.bin"}
DiskSize(f) == IF f = "a.txt" THEN 0 ELSE 20000

Min(a, b) == IF a < b THEN a ELSE b

RECURSIVE Join(_)
\* " ".join(args)
Join(args) ==
    IF Len(args) = 0 THEN ""
    ELSE IF Len(args) = 1 THEN args[1]
    ELSE args[1] \o " " \o Join(Tail(args))

-----------------------------------------------------------------------------
(* The client object *)

NoPc == [exists |-> FALSE, initiator |-> FALSE, signalingState |-> "stable",
         remote |-> None, local |-> None, candidates |-> 0, closed |-> FALSE]

NoLine == [slash |-> FALSE, parts |-> <<>>]

NoSend == [name |-> "", size |-> 0, bytes_sent |-> 0, chunk |-> 0]

\* FileTransfer(name, size): received = 0, complete = False
FileTransfer(name, size) ==
    [name |-> name, size |-> size, received |-> 0, complete |-> FALSE]

\* P2PClient.__init__; the last fields are the positions of main() and of
\* the two tasks, the file send in progress, what the step just taken wrote
\* to the connection and to the channel, the exception that left the
\* last callback, and the number of RTCPeerConnection objects that were
\* created, never closed, and that self.pc no longer refers to.
P2PClient ==
    [websocket |-> None, my_token |-> None, peer_token |-> None,
     messages |-> <<>>, file_transfers |-> <<>>, input_buffer |-> NoLine,
     should_exit |-> FALSE, pc |-> NoPc, dc |-> None,
     mainPc |-> "new", wsPc |-> "new", inPc |-> "new", sending |-> NoSend,
     wsOut |-> <<>>, dcOut |-> <<>>, raised |-> None, orphans |-> 0]

\* add_message: the log is append-only and no handler reads it, so the
\* model keeps the levels of the entries appended by the latest step.
add_message(s, level) == [s EXCEPT !.messages = Append(@, level)]

\* The beginning of a step: nothing logged yet, nothing raised yet.
Enter(s) ==
    [s EXCEPT !.messages = <<>>, !.wsOut = <<>>, !.dcOut = <<>>, !.raised = None]

-----------------------------------------------------------------------------
(* Signaling envelopes *)

\* An inbound text frame: json says whether json.loads accepts it; a field
\* is Absent when the object has no such key.  sdp is itself JSON text:
\* "badjson" does not parse, otherwise it is the "type" of the description.
Envelope(type, token, sdp, ice) ==
    [json |-> "ok", type |-> type, token |-> token, sdp |-> sdp, ice |-> ice]

BadJson ==
    [json |-> "bad", type |-> Absent, token |-> Absent, sdp |-> Absent,
     ice |-> Absent]

WellFormed ==
    {Envelope("token", "T1", Absent, Absent)}
    \cup {Envelope("request", t, Absent, Absent) : t \in Tokens}
    \cup {Envelope("offer", Absent, "offer", Absent),
          Envelope("answer", Absent, "answer", Absent),
          Envelope("ice", Absent, Absent, "candidate"),
          Envelope("accept", "T1", Absent, Absent)}

Malformed ==
    {BadJson,
     Envelope(Absent, Absent, Absent, Absent),
     Envelope("token", Absent, Absent, Absent),
     Envelope("offer", Absent, Absent, Absent)}

Inbound == WellFormed \cup Malformed

\* json.dumps({"type": ..., "peerToken": ..., "sdp": ...})
Sent(type, peerToken, sdp) == [type |-> type, peerToken |-> peerToken, sdp |-> sdp]

\* await self.websocket.send(text): an AttributeError when websocket is
\* None, ConnectionClosed when the connection is closed.
CanSend(s) == s.websocket = "open"

websocket_send(s, e) == [s EXCEPT !.wsOut = Append(@, e)]

\* self.dc.send(data): aiortc raises InvalidStateError unless the channel
\* is open.
dc_send(s, m) == [s EXCEPT !.dcOut = Append(@, m)]

-----------------------------------------------------------------------------
(* PeerLink: the calls the client makes on RTCPeerConnection *)

\* RTCPeerConnection(configuration=config): a new connection in the
\* "stable" signaling state with no description.
NewPc(is_initiator) ==
    [exists |-> TRUE, initiator |-> is_initiator, signalingState |-> "stable",
     remote |-> None, local |-> None, candidates |-> 0, closed |-> FALSE]

\* setRemoteDescription is accepted for an offer in the states stable and
\* have-remote-offer, for an answer in the state have-local-offer.
CanSetRemote(pc, type) ==
    /\ pc.exists
    /\ ~pc.closed
    /\ \/ type = "offer" /\ pc.signalingState \in {"stable", "have-remote-offer"}
       \/ type = "answer" /\ pc.signalingState = "have-local-offer"

setRemoteDescription(pc, type) ==
    [pc EXCEPT !.remote = type,
               !.signalingState = IF type = "offer" THEN "have-remote-offer"
                                  ELSE "stable"]

\* createAnswer then setLocalDescription(answer)
setLocalAnswer(pc) ==
    [pc EXCEPT !.local = "answer", !.signalingState = "stable"]

addIceCandidate(pc) == [pc EXCEPT !.candidates = @ + 1]

\* Both descriptions are set: the transports can come up.
Negotiated(pc) ==
    pc.exists /\ ~pc.closed /\ pc.remote # None /\ pc.local # None

-----------------------------------------------------------------------------
(* setup_peer_connection, setup_data_channel *)

\* A variant that forgets to create the RTCPeerConnection.
setup_peer_connection_nopc(s, is_initiator) ==
    add_message(s, "DEBUG")

\* setup_peer_connection(is_initiator): self.pc is replaced by a new
\* connection (an earlier one is neither closed nor kept); the initiator
\* also creates the data channel, which starts in "connecting".
setup_peer_connection(s, is_initiator) ==
    LET s1 == add_message(s, "DEBUG")
        s2 == [s1 EXCEPT !.pc = NewPc(is_initiator),
                         !.orphans = IF s.pc.exists /\ ~s.pc.closed THEN @ + 1 ELSE @]
    IN  IF is_initiator
        THEN add_message([s2 EXCEPT !.dc = "connecting"], "DEBUG")
        ELSE s2

-----------------------------------------------------------------------------
(* handle_websocket_message *)

\* except Exception as e: two log entries, nothing re-raised.
Caught(s) == add_message(add_message(s, "ERROR"), "DEBUG")

\* msg_type == 'token'
on_token(s, m) ==
    IF m.token = Absent THEN Caught(s)                       \* KeyError
    ELSE add_message([s EXCEPT !.my_token = m.token], "INFO")

\* A variant of the request branch that sets the connection up as
\* initiator.
on_request_initiator(s, m) ==
    IF m.token = Absent THEN Caught(s)
    ELSE LET s1 == add_message(s, "INFO")
         IN  IF ~CanSend(s1) THEN Caught(s1)
             ELSE setup_peer_connection(
                      websocket_send(s1, Sent("accept", m.token, Absent)), TRUE)

\* msg_type == 'request': log, send accept, set up the connection as
\* responder.  peer_token is not assigned.
on_request(s, m) ==
    IF m.token = Absent THEN Caught(s)                       \* KeyError
    ELSE LET s1 == add_message(s, "INFO")
         IN  IF ~CanSend(s1) THEN Caught(s1)
             ELSE setup_peer_connection(
                      websocket_send(s1, Sent("accept", m.token, Absent)), FALSE)

\* msg_type == 'offer'
on_offer(s, m) ==
    LET s1 == add_message(s, "DEBUG")
    IN  IF m.sdp \in {Absent, "badjson"} THEN Caught(s1)     \* KeyError, JSONDecodeError
        ELSE IF ~s1.pc.exists THEN Caught(s1)                \* AttributeError on None
        ELSE IF ~CanSetRemote(s1.pc, m.sdp) THEN Caught(s1)  \* InvalidStateError
        ELSE LET s2 == [s1 EXCEPT !.pc = setLocalAnswer(setRemoteDescription(@, m.sdp))]
             IN  IF ~CanSend(s2) THEN Caught(s2)
                 ELSE add_message(
                          websocket_send(s2, Sent("answer", s2.peer_token, "answer")),
                          "DEBUG")

\* msg_type == 'answer'
on_answer(s, m) ==
    LET s1 == add_message(s, "DEBUG")
    IN  IF m.sdp \in {Absent, "badjson"} THEN Caught(s1)
        ELSE IF ~s1.pc.exists THEN Caught(s1)
        ELSE IF ~CanSetRemote(s1.pc, m.sdp) THEN Caught(s1)
        ELSE [s1 EXCEPT !.pc = setRemoteDescription(@, m.sdp)]

\* msg_type == 'ice'
on_ice(s, m) ==
    LET s1 == add_message(s, "DEBUG")
    IN  IF m.ice = Absent THEN Caught(s1)
        ELSE IF ~s1.pc.exists THEN Caught(s1)
        ELSE [s1 EXCEPT !.pc = addIceCandidate(@)]

\* The whole handler: everything is inside one try, so nothing is raised;
\* a type that matches no branch (None included) falls through silently.
handle_websocket_message(s, m) ==
    LET s1 == add_message(s, "DEBUG")
    IN  IF m.json = "bad" THEN Caught(s1)                    \* JSONDecodeError
        ELSE LET s2 == add_message(s1, "DEBUG")
             IN  CASE m.type = "token" -> on_token(s2, m)
                   [] m.type = "request" -> on_request(s2, m)
                   [] m.type = "offer" -> on_offer(s2, m)
                   [] m.type = "answer" -> on_answer(s2, m)
                   [] m.type = "ice" -> on_ice(s2, m)
                   [] OTHER -> s2

-----------------------------------------------------------------------------
(* Data-channel messages and the transfer map *)

\* A message on the data channel.  Text is JSON (json says whether it
\* parses; info is what data["info"] holds: "ok", or which key it lacks;
\* content is data["content"]); binary is a chunk of len bytes.  The field "of" is not on the wire: it
\* is the position, among the file-info messages of this channel, of the
\* file the sender read the chunk from (0: of no announced file).
DcText(json, type, info, size) ==
    [kind |-> "text", json |-> json, type |-> type, info |-> info,
     id |-> Absent, name |-> "f", size |-> size, content |-> Absent,
     len |-> 0, of |-> 0]

DcChunk(len, of) ==
    [kind |-> "binary", json |-> "ok", type |-> Absent, info |-> Absent,
     id |-> Absent, name |-> "", size |-> 0, content |-> Absent,
     len |-> len, of |-> of]

\* json.dumps({"type": "file-info", "info": {"name": ..., "size": ...}})
FileInfoMsg(name, size) ==
    [kind |-> "text", json |-> "ok", type |-> "file-info", info |-> "ok",
     id |-> Absent, name |-> name, size |-> size, content |-> Absent,
     len |-> 0, of |-> 0]

\* json.dumps({"type": "message", "content": cmd})
ChatMsg(content) ==
    [kind |-> "text", json |-> "ok", type |-> "message", info |-> "ok",
     id |-> Absent, name |-> "", size |-> 0, content |-> content,
     len |-> 0, of |-> 0]

InfoSizes == {0, 10000, 20000}
ChunkLens == {3616, 10000, 16384}

DcWellFormed ==
    {DcText("ok", "file-info", "ok", z) : z \in InfoSizes} \cup {ChatMsg("hi")}

DcMalformed ==
    {DcText("bad", Absent, Absent, 0),
     DcText("ok", Absent, Absent, 0),
     DcText("ok", "file-info", Absent, 0),
     DcText("ok", "file-info", "noname", 0),
     DcText("ok", "message", Absent, 0)}

\* handle_file_info: a new entry under a fresh uuid4 key; the dict keeps
\* insertion order, so the map is the sequence of its values.
handle_file_info(s, m) ==
    add_message([s EXCEPT !.file_transfers = Append(@, FileTransfer(m.name, m.size))],
                "INFO")

Incomplete(fts) == {i \in 1..Len(fts) : ~fts[i].complete}

\* The transfer the loop of handle_file_chunk stops at: the first one, in
\* the order of the map, that is not complete (0: there is none).
FirstIncomplete(fts) ==
    IF Incomplete(fts) = {} THEN 0
    ELSE CHOOSE i \in Incomplete(fts) : \A j \in Incomplete(fts) : i <= j

RECURSIVE AddToIncomplete(_, _)
\* A variant of handle_file_chunk whose loop has no break: every transfer
\* that is not complete counts the chunk.
AddToIncomplete(fts, len) ==
    IF fts = <<>> THEN <<>>
    ELSE LET ft == Head(fts)
             r == ft.received + len
         IN  <<IF ft.complete THEN ft
               ELSE [ft EXCEPT !.received = r, !.complete = (r >= ft.size)]>>
             \o AddToIncomplete(Tail(fts), len)

handle_file_chunk_nobreak(s, len) ==
    [s EXCEPT !.file_transfers = AddToIncomplete(@, len)]

\* handle_file_chunk
handle_file_chunk(s, len) ==
    LET i == FirstIncomplete(s.file_transfers)
    IN  IF i = 0 THEN s
        ELSE LET r == s.file_transfers[i].received + len
             IN  [s EXCEPT !.file_transfers[i].received = r,
                           !.file_transfers[i].complete =
                               (r >= s.file_transfers[i].size)]

\* An exception that no except clause of the callback catches leaves it.
Raise(s, e) == [s EXCEPT !.raised = e]

\* setup_data_channel.on_message: only JSONDecodeError is caught.
on_message(s, m) ==
    IF m.kind = "text"
    THEN IF m.json = "bad" THEN add_message(s, "ERROR")
         ELSE IF m.type = Absent THEN Raise(s, "KeyError")
         ELSE IF m.type = "file-info"
              THEN IF m.info # "ok" THEN Raise(s, "KeyError")
                   ELSE handle_file_info(s, m)
         ELSE IF m.type = "message"
              THEN IF m.info # "ok" THEN Raise(s, "KeyError")
                   ELSE add_message(s, "Peer")
         ELSE s
    ELSE handle_file_chunk(s, m.len)

-----------------------------------------------------------------------------
(* process_command *)

Chat == [slash |-> FALSE, parts |-> <<"hello", "there">>]
Cmd(parts) == [slash |-> TRUE, parts |-> parts]

Lines ==
    {Chat, Cmd(<<>>), Cmd(<<"bogus">>), Cmd(<<"quit">>),
     Cmd(<<"connect">>), Cmd(<<"connect", "T1">>),
     Cmd(<<"send">>), Cmd(<<"send", "a.txt">>), Cmd(<<"send", "b", "c.bin">>),
     Cmd(<<"send", "nofile">>)}

\* A variant of chat that does not look at the channel.
chat_ungated(s, cmd) ==
    add_message(dc_send(s, ChatMsg(Join(cmd.parts))), "Me")

\* a line that does not start with '/': the text of the line is sent as
\* it is when the channel is open; otherwise nothing happens at all.
chat(s, cmd) ==
    IF s.dc = "open" THEN add_message(dc_send(s, ChatMsg(Join(cmd.parts))), "Me")
    ELSE s

\* command == 'connect'
connect(s, args) ==
    IF Len(args) # 1 THEN add_message(s, "ERROR")
    ELSE LET s1 == setup_peer_connection([s EXCEPT !.peer_token = args[1]], TRUE)
         IN  IF ~CanSend(s1) THEN Raise(s1, "AttributeError")
             ELSE add_message(websocket_send(s1, Sent("connect", args[1], Absent)),
                              "INFO")

\* f.read(chunk_size) at offset bytes_sent of a file of the given size
Read(size, offset) == Min(chunk_size, size - offset)

\* command == 'send', up to the first await asyncio.sleep: the file-info
\* and the first read.  A file with no bytes ends here.
send(s, args) ==
    IF Len(args) = 0 \/ s.dc = None THEN add_message(s, "ERROR")
    ELSE LET filename == Join(args)
         IN  IF filename \notin DiskFiles THEN add_message(s, "ERROR")
             ELSE LET size == DiskSize(filename)
                      s1 == add_message(s, "DEBUG")
                  IN  IF s1.dc # "open" THEN Caught(s1)       \* InvalidStateError
                      ELSE LET s2 == dc_send(s1, FileInfoMsg(filename, size))
                           IN  IF Read(size, 0) = 0 THEN add_message(s2, "INFO")
                               ELSE [s2 EXCEPT !.inPc = "sleep",
                                               !.sending = [name |-> filename,
                                                            size |-> size,
                                                            bytes_sent |-> 0,
                                                            chunk |-> Read(size, 0)]]

process_command(s, cmd) ==
    IF ~cmd.slash THEN chat(s, cmd)
    ELSE IF Len(cmd.parts) = 0 THEN s
    ELSE LET command == Head(cmd.parts)
             args == Tail(cmd.parts)
         IN  CASE command = "connect" -> connect(s, args)
               [] command = "send" -> send(s, args)
               [] command = "quit" -> [s EXCEPT !.should_exit = TRUE]
               [] OTHER -> s

\* The send loop after the sleep: send the chunk that was read, count it,
\* log, read the next one; the loop ends on an empty read.
send_resume(s) ==
    IF s.dc # "open"
    THEN [Caught(s) EXCEPT !.sending = NoSend, !.inPc = "poll"]
    ELSE LET sent == s.sending.bytes_sent + s.sending.chunk
             s1 == add_message(dc_send(s, DcChunk(s.sending.chunk, 0)), "DEBUG")
             next == Read(s.sending.size, sent)
         IN  IF next = 0
             THEN [add_message(s1, "INFO") EXCEPT !.sending = NoSend, !.inPc = "poll"]
             ELSE [s1 EXCEPT !.sending.bytes_sent = sent, !.sending.chunk = next]

-----------------------------------------------------------------------------
(* The tasks: websocket_loop, input_loop, main *)

\* websocket_loop, the head of the outer loop: leave when the flag is set,
\* else log the attempt and await websockets.connect.
OuterLoop(s) ==
    IF s.should_exit THEN [s EXCEPT !.wsPc = "done"]
    ELSE [add_message(add_message(s, "DEBUG"), "DEBUG") EXCEPT !.wsPc = "connecting"]

\* websocket_loop, the head of the inner loop: await recv unless the flag
\* is set; leaving the inner loop leads straight back to the outer one.
InnerLoop(s) ==
    IF s.should_exit THEN OuterLoop(s) ELSE [s EXCEPT !.wsPc = "recv"]

\* input_loop, the head of the loop
InputLoop(s) ==
    IF s.should_exit THEN [s EXCEPT !.inPc = "done"] ELSE [s EXCEPT !.inPc = "poll"]

\* input_loop on '\n' with a non-empty buffer: an exception that leaves
\* process_command is logged by the loop and the buffer keeps the line;
\* a send that is suspended keeps it until the send returns.
on_enter(s) ==
    LET s1 == process_command(s, s.input_buffer)
    IN  IF s1.raised # None
        THEN InputLoop(add_message([s1 EXCEPT !.raised = None], "ERROR"))
        ELSE IF s1.inPc = "sleep" THEN s1
        ELSE InputLoop([s1 EXCEPT !.input_buffer = NoLine])

\* main, the finally clause
finally(s) ==
    [s EXCEPT !.pc = IF @.exists THEN [@ EXCEPT !.closed = TRUE] ELSE @,
              !.dc = IF s.pc.exists /\ @ # None THEN "closed" ELSE @,
              !.websocket = IF @ # None THEN "closed" ELSE @,
              !.mainPc = "exited"]

-----------------------------------------------------------------------------
(* The environment of one client *)

NoEnv ==
    [wsIn |-> <<>>, sent |-> <<>>, dcSent |-> <<>>, relayed |-> 0,
     nEvents |-> 0, tokenSent |-> FALSE, surfaced |-> 0,
     arrived |-> <<>>, started |-> <<>>, nDone |-> 0, cur |-> None,
     own |-> <<>>, backoffDue |-> FALSE, script |-> 0]

\* The scenario token, request, offer, channel open: how many of its events
\* have been processed, as long as nothing else has been (-1 after that).
Scenario == <<"token", "request", "offer", "datachannel">>

Advance(k, event) ==
    IF k >= 0 /\ k < Len(Scenario) /\ Scenario[k + 1] = event THEN k + 1 ELSE -1

\* What a step leaves behind: the client, and what it wrote, appended to
\* the history of the connection and of the channel.
Step(c, s, e, event) ==
    /\ cl' = [cl EXCEPT ![c] = s]
    /\ env' = [env EXCEPT ![c] =
                  [e EXCEPT !.sent = @ \o s.wsOut,
                            !.dcSent = @ \o s.dcOut,
                            !.script = IF event = "" THEN @ ELSE Advance(@, event)]]

Running(c) == cl[c].mainPc = "gather"

-----------------------------------------------------------------------------
(* Actions *)

\* main: init_screen, the first log entry, and gather: each task runs to
\* its first await.
Start(c) ==
    /\ cl[c].mainPc = "new"
    /\ Step(c, InputLoop(OuterLoop([add_message(Enter(cl[c]), "INFO")
                                       EXCEPT !.mainPc = "gather"])),
            env[c], "")

\* websockets.connect returns a connection.
WsConnected(c) ==
    /\ Running(c)
    /\ cl[c].wsPc = "connecting"
    /\ LET s1 == [Enter(cl[c]) EXCEPT !.websocket = "open"]
           s2 == add_message(add_message(add_message(add_message(
                     add_message(s1, "INFO"), "DEBUG"), "DEBUG"), "DEBUG"), "DEBUG")
       IN  Step(c, InnerLoop(s2), [env[c] EXCEPT !.wsIn = <<>>], "")

\* websockets.connect raises: log, then await asyncio.sleep(retry_delay).
WsConnectFailed(c) ==
    /\ Running(c)
    /\ cl[c].wsPc = "connecting"
    /\ env[c].nEvents < MaxEvents
    /\ Step(c, [Caught(Enter(cl[c])) EXCEPT !.wsPc = "sleep"],
            [env[c] EXCEPT !.nEvents = @ + 1, !.backoffDue = TRUE],
            "connect-failed")

\* asyncio.sleep(retry_delay) returns.
WsSleepDone(c) ==
    /\ Running(c)
    /\ cl[c].wsPc = "sleep"
    /\ Step(c, OuterLoop(Enter(cl[c])), [env[c] EXCEPT !.backoffDue = FALSE], "")

\* recv returns the next frame: log, handle, back to the inner loop.
WsReceive(c) ==
    /\ Running(c)
    /\ cl[c].wsPc = "recv"
    /\ env[c].wsIn # <<>>
    /\ LET m == Head(env[c].wsIn)
           s1 == handle_websocket_message(add_message(Enter(cl[c]), "DEBUG"), m)
       IN  Step(c, InnerLoop(s1), [env[c] EXCEPT !.wsIn = Tail(@)],
                IF m \in WellFormed THEN m.type ELSE "malformed")

\* recv raises ConnectionClosed (after the frames already buffered): log
\* and break, which leads straight back to the outer loop.
WsConnectionLost(c) ==
    /\ Running(c)
    /\ cl[c].wsPc = "recv"
    /\ env[c].wsIn = <<>>
    /\ env[c].nEvents < MaxEvents
    /\ Step(c, OuterLoop(add_message([Enter(cl[c]) EXCEPT !.websocket = "closed"],
                                     "ERROR")),
            [env[c] EXCEPT !.nEvents = @ + 1, !.backoffDue = TRUE],
            "connection-lost")

\* The server writes a frame to the connection.
ServerSend(c, m) ==
    /\ cl[c].websocket = "open"
    /\ Running(c)
    /\ env[c].nEvents < MaxEvents
    /\ Len(env[c].wsIn) < MaxInFlight
    /\ env' = [env EXCEPT ![c].wsIn = Append(@, m), ![c].nEvents = @ + 1]
    /\ UNCHANGED cl

\* The user types a line into the empty buffer and presses Enter.
UserLine(c, line) ==
    /\ Running(c)
    /\ cl[c].inPc = "poll"
    /\ cl[c].input_buffer = NoLine
    /\ env[c].nEvents < MaxEvents
    /\ Step(c, on_enter([Enter(cl[c]) EXCEPT !.input_buffer = line]),
            [env[c] EXCEPT !.nEvents = @ + 1], "line")

\* The user presses Enter on a line that an earlier failure left in the
\* buffer.
UserEnter(c) ==
    /\ Running(c)
    /\ cl[c].inPc = "poll"
    /\ cl[c].input_buffer # NoLine
    /\ env[c].nEvents < MaxEvents
    /\ Step(c, on_enter(Enter(cl[c])), [env[c] EXCEPT !.nEvents = @ + 1], "line")

\* The user erases such a line with backspaces.
UserErase(c) ==
    /\ Running(c)
    /\ cl[c].inPc = "poll"
    /\ cl[c].input_buffer # NoLine
    /\ Step(c, [Enter(cl[c]) EXCEPT !.input_buffer = NoLine], env[c], "line")

\* asyncio.sleep(0.001) returns inside the send loop; when the send
\* returns, input_loop clears the buffer.
SendResume(c) ==
    /\ Running(c)
    /\ cl[c].inPc = "sleep"
    /\ LET s1 == send_resume(Enter(cl[c]))
       IN  Step(c, IF s1.inPc = "sleep" THEN s1
                   ELSE InputLoop([s1 EXCEPT !.input_buffer = NoLine]),
                env[c], "")

\* Both tasks have returned: the finally clause of main.
MainFinally(c) ==
    /\ Running(c)
    /\ cl[c].wsPc = "done"
    /\ cl[c].inPc = "done"
    /\ Step(c, finally(Enter(cl[c])), env[c], "")

\* The events the PeerLink can deliver in the state s: a channel opened
\* by the remote side arrives (already open) at a responder once both
\* descriptions are set; a local channel opens under the same condition;
\* an open channel can close; once the local description is set, the
\* PeerLink gathers local ICE candidates.
PeerEvents(s) ==
    {ev \in {"datachannel"} : Negotiated(s.pc) /\ ~s.pc.initiator}
    \cup {ev \in {"open"} : Negotiated(s.pc) /\ s.dc = "connecting"}
    \cup {ev \in {"close"} : s.dc = "open"}
    \cup {ev \in {"icecandidate"} : s.pc.exists /\ ~s.pc.closed /\ s.pc.local # None}

\* on_datachannel, on_open, on_close; setup_peer_connection registers
\* handlers for connectionstatechange, icegatheringstatechange,
\* iceconnectionstatechange, signalingstatechange and datachannel: none
\* for a local candidate, so that event runs no code of the client.
on_peer_event(s, ev) ==
    CASE ev = "datachannel" -> add_message([s EXCEPT !.dc = "open"], "DEBUG")
      [] ev = "open" -> add_message([s EXCEPT !.dc = "open"], "INFO")
      [] ev = "close" -> add_message([s EXCEPT !.dc = "closed"], "INFO")
      [] ev = "icecandidate" -> s

PeerEvent(c, ev) ==
    /\ Running(c)
    /\ ev \in PeerEvents(cl[c])
    /\ env[c].nEvents < MaxEvents
    /\ Step(c, on_peer_event(Enter(cl[c]), ev),
            [env[c] EXCEPT !.nEvents = @ + 1,
                           !.surfaced = IF ev = "icecandidate" THEN @ + 1 ELSE @],
            ev)

\* The chunks the remote sender can send next: one of a file it has
\* announced and not finished; a stray one only when the receiver has no
\* incomplete transfer.
NextChunks(s, own) ==
    {DcChunk(p[1], p[2]) :
        p \in {q \in ChunkLens \X (1..Len(own)) :
                  own[q[2]] + q[1] <= s.file_transfers[q[2]].size}}
    \cup {DcChunk(n, 0) : n \in {k \in ChunkLens : FirstIncomplete(s.file_transfers) = 0}}

DcInbound ==
    DcWellFormed \cup DcMalformed
    \cup {DcChunk(n, i) : n \in ChunkLens, i \in 0..MaxEvents}

\* A message arrives on the open channel: on_message.
DcMessage(c, m) ==
    /\ Running(c)
    /\ cl[c].dc = "open"
    /\ env[c].nEvents < MaxEvents
    /\ m \in DcWellFormed \cup DcMalformed \cup NextChunks(cl[c], env[c].own)
    /\ LET s1 == on_message(Enter(cl[c]), m)
           own == env[c].own
           own1 == IF Len(s1.file_transfers) > Len(own) THEN Append(own, 0)
                   ELSE IF m.kind = "binary" /\ m.of > 0
                        THEN [own EXCEPT ![m.of] = @ + m.len]
                   ELSE own
       IN  Step(c, s1, [env[c] EXCEPT !.nEvents = @ + 1, !.own = own1],
                IF m \in DcMalformed THEN "dc-malformed" ELSE "dc")

-----------------------------------------------------------------------------
(* One client and an arbitrary server, peer and user *)

Init ==
    /\ cl = [c \in {"A"} |-> P2PClient]
    /\ env = [c \in {"A"} |-> NoEnv]

Next ==
    \E c \in {"A"} :
        \/ Start(c)
        \/ WsConnected(c)
        \/ WsConnectFailed(c)
        \/ WsSleepDone(c)
        \/ WsReceive(c)
        \/ WsConnectionLost(c)
        \/ \E m \in Inbound : ServerSend(c, m)
        \/ \E line \in Lines : UserLine(c, line)
        \/ UserEnter(c)
        \/ UserErase(c)
        \/ SendResume(c)
        \/ MainFinally(c)
        \/ \E ev \in {"datachannel", "open", "close", "icecandidate"} : PeerEvent(c, ev)
        \/ \E m \in DcInbound : DcMessage(c, m)

Spec == Init /\ [][Next]_vars

-----------------------------------------------------------------------------
(* One client under the event loop as asyncio runs it *)

\* asyncio runs one task at a time and switches only where the running
\* task awaits something that is not ready.  input_loop awaits nothing
\* between two polls: getch blocks the thread for up to 100 ms and
\* "continue" goes straight to the next getch.  So while input_loop is
\* polling, the event loop runs nothing else; it gets control back when
\* input_loop is suspended in the sleep of the send loop or has returned.
Yielded(c) == cl[c].inPc # "poll"

\* The steps of websocket_loop.
WsTask(c) ==
    \/ WsConnected(c)
    \/ WsConnectFailed(c)
    \/ WsSleepDone(c)
    \/ WsReceive(c)
    \/ WsConnectionLost(c)

\* What the event loop runs when it has control: websocket_loop, the send
\* loop after its sleep, the callbacks of the PeerLink and of the channel,
\* the end of main; frames arrive on an open connection independently.
Dispatch(c) ==
    /\ Yielded(c)
    /\ \/ WsTask(c)
       \/ \E m \in Inbound : ServerSend(c, m)
       \/ SendResume(c)
       \/ MainFinally(c)
       \/ \E ev \in {"datachannel", "open", "close", "icecandidate"} : PeerEvent(c, ev)
       \/ \E m \in DcInbound : DcMessage(c, m)

LoopNext ==
    \E c \in {"A"} :
        \/ Start(c)
        \/ \E line \in Lines : UserLine(c, line)
        \/ UserEnter(c)
        \/ UserErase(c)
        \/ Dispatch(c)

LoopSpec == Init /\ [][LoopNext]_vars

-----------------------------------------------------------------------------
(* The receive loop with the suspensions inside the handler *)

\* The frames of this part.
OrdFrames ==
    {Envelope("token", "T1", Absent, Absent),
     Envelope("request", "T2", Absent, Absent),
     Envelope("offer", Absent, "offer", Absent),
     Envelope("ice", Absent, Absent, "candidate")}

\* The branches of handle_websocket_message that await something (a send,
\* a call of the PeerLink): the task can be suspended there and the other
\* task and the callbacks can run before the handler goes on.
Suspends(m) ==
    m.json = "ok" /\ m.type \in {"request", "offer", "answer", "ice"}

\* A variant of dispatch that starts the handler as a task of its own and
\* goes back to recv.
dispatch_task(s) == [s EXCEPT !.wsPc = "recv"]

\* await self.handle_websocket_message(message): the loop goes on only
\* when the handler has returned.
dispatch(s) == [s EXCEPT !.wsPc = "handling"]

\* The server writes a frame; the connection keeps the frames in order.
OrdServerSend(c, m) ==
    /\ cl[c].websocket = "open"
    /\ Running(c)
    /\ env[c].nEvents < MaxEvents
    /\ Len(env[c].wsIn) < MaxQueue
    /\ env' = [env EXCEPT ![c].wsIn = Append(@, m), ![c].arrived = Append(@, m),
                          ![c].nEvents = @ + 1]
    /\ UNCHANGED cl

\* recv returns the oldest frame: the entry is logged and the handler
\* starts; a handler that awaits nothing also finishes.
OrdReceive(c) ==
    /\ Running(c)
    /\ cl[c].wsPc = "recv"
    /\ env[c].wsIn # <<>>
    /\ LET m == Head(env[c].wsIn)
           s0 == add_message(Enter(cl[c]), "DEBUG")
           e0 == [env[c] EXCEPT !.wsIn = Tail(@), !.started = Append(@, m)]
       IN  IF Suspends(m)
           THEN Step(c, dispatch(s0), [e0 EXCEPT !.cur = m], "")
           ELSE Step(c, InnerLoop(handle_websocket_message(s0, m)),
                     [e0 EXCEPT !.nDone = @ + 1], m.type)

\* The handler that was suspended finishes (its writes are placed here),
\* and the loop goes back to its head.
OrdHandled(c) ==
    /\ Running(c)
    /\ cl[c].wsPc = "handling"
    /\ Step(c, InnerLoop(handle_websocket_message(Enter(cl[c]), env[c].cur)),
            [env[c] EXCEPT !.nDone = @ + 1, !.cur = None], env[c].cur.type)

OrderNext ==
    \E c \in {"A"} :
        \/ Start(c)
        \/ WsConnected(c)
        \/ \E m \in OrdFrames : OrdServerSend(c, m)
        \/ OrdReceive(c)
        \/ OrdHandled(c)
        \/ \E line \in {Cmd(<<"quit">>), Cmd(<<"connect", "T1">>)} : UserLine(c, line)
        \/ UserEnter(c)
        \/ UserErase(c)
        \/ MainFinally(c)

OrderSpec == Init /\ [][OrderNext]_vars

-----------------------------------------------------------------------------
(* Two clients and the rendezvous server *)

\* The token the server assigns to each client, and the client a token
\* names (None: no client).
TokenOf(c) == IF c = "A" THEN "T1" ELSE "T2"

ClientOf(token) ==
    IF token = "T1" THEN "A" ELSE IF token = "T2" THEN "B" ELSE None

Other(c) == IF c = "A" THEN "B" ELSE "A"

\* What the server makes of an envelope from client c for its addressee:
\* connect becomes request, and the sender's token replaces peerToken.
Relayed(e, c) ==
    IF e.type = "connect" THEN Envelope("request", TokenOf(c), Absent, Absent)
    ELSE IF e.type = "accept" THEN Envelope("accept", TokenOf(c), Absent, Absent)
    ELSE Envelope(e.type, Absent, e.sdp, Absent)

RvInit ==
    /\ cl = [c \in {"A", "B"} |-> P2PClient]
    /\ env = [c \in {"A", "B"} |-> NoEnv]

\* The server sends a new connection its token.
RvAssign(c) ==
    /\ Running(c)
    /\ cl[c].websocket = "open"
    /\ ~env[c].tokenSent
    /\ env' = [env EXCEPT ![c].wsIn = Append(@, Envelope("token", TokenOf(c), Absent, Absent)),
                          ![c].tokenSent = TRUE]
    /\ UNCHANGED cl

\* A user who has not yet named a peer types /connect <token of the other>.
RvConnect(c) ==
    /\ cl[c].peer_token = None
    /\ UserLine(c, Cmd(<<"connect", TokenOf(Other(c))>>))

\* The server holds an envelope of c that it has not relayed; it serves a
\* connection once it has sent it its token.
CanRelay(c) == env[c].tokenSent /\ env[c].relayed < Len(env[c].sent)

\* The PeerLinks of both clients hold both descriptions and c's channel is
\* not open yet.
CanOpen(c) ==
    /\ Negotiated(cl[c].pc)
    /\ Negotiated(cl[Other(c)].pc)
    /\ cl[c].dc # "open"

\* The network between the clients: the server relays the next envelope
\* that c sent to the client it is addressed to (an envelope addressed to
\* no client that holds a token is dropped); once both PeerLinks are negotiated the channel
\* opens at c.
RvNetwork(c) ==
    /\ Running(c)
    /\ CanRelay(c) \/ CanOpen(c)
    /\ IF CanRelay(c)
       THEN LET e == env[c].sent[env[c].relayed + 1]
                d == ClientOf(e.peerToken)
            IN  /\ env' = IF /\ d \in DOMAIN cl
                             /\ d # c
                             /\ cl[d].websocket = "open"
                             /\ env[d].tokenSent
                          THEN [env EXCEPT ![c].relayed = @ + 1,
                                           ![d].wsIn = Append(@, Relayed(e, c))]
                          ELSE [env EXCEPT ![c].relayed = @ + 1]
                /\ UNCHANGED cl
       ELSE Step(c, on_peer_event(Enter(cl[c]),
                                  IF cl[c].pc.initiator THEN "open" ELSE "datachannel"),
                 env[c], "")

RvNext ==
    \E c \in {"A", "B"} :
        \/ Start(c)
        \/ WsConnected(c)
        \/ RvAssign(c)
        \/ WsReceive(c)
        \/ RvConnect(c)
        \/ UserEnter(c)
        \/ RvNetwork(c)

RvSpec == RvInit /\ [][RvNext]_vars

-----------------------------------------------------------------------------
(* The session phase of the specification, read off the client's fields *)

channelReady(s) == s.dc = "open"

Phase(s) ==
    IF s.mainPc = "exited" THEN "Closed"
    ELSE IF channelReady(s) THEN "Connected"
    ELSE IF s.pc.exists /\ s.pc.remote # None THEN "Negotiating"
    ELSE IF s.pc.exists /\ s.pc.initiator THEN "Requesting"
    ELSE IF s.pc.exists THEN "Requested"
    ELSE IF s.my_token # None THEN "TokenAssigned"
    ELSE "Idle"

Types(envelopes) == [i \in 1..Len(envelopes) |-> envelopes[i].type]

-----------------------------------------------------------------------------
(* Claims *)

\* C1: a transfer's received counter grows only by the chunks of its own
\* file, so it never exceeds the bytes of its own chunks delivered so far.
C1_Demultiplexed ==
    \A c \in DOMAIN cl :
        \A i \in 1..Len(cl[c].file_transfers) :
            cl[c].file_transfers[i].received <= env[c].own[i]

\* C2: received is the sum of the lengths of the transfer's own chunks
\* processed so far, and complete is true exactly when received >= size
\* (also for size 0).
C2_ReceivedAndComplete ==
    \A c \in DOMAIN cl :
        \A i \in 1..Len(cl[c].file_transfers) :
            LET ft == cl[c].file_transfers[i]
            IN  /\ ft.received = env[c].own[i]
                /\ ft.complete <=> (ft.received >= ft.size)

\* C3: from a fresh client, token, request, offer, channel open drive the
\* phase Idle, TokenAssigned, Requested, Negotiating, Connected, with
\* exactly one accept sent after the request, exactly one answer after the
\* offer, and the channel ready after the channel opened.
C3_Scenario ==
    \A c \in DOMAIN cl :
        LET k == env[c].script
            s == cl[c]
        IN  k >= 0 /\ s.mainPc # "exited" =>
                /\ Phase(s) = <<"Idle", "TokenAssigned", "Requested", "Negotiating",
                                "Connected">>[k + 1]
                /\ Types(env[c].sent) =
                       <<<<>>, <<>>, <<"accept">>, <<"accept", "answer">>,
                         <<"accept", "answer">>>>[k + 1]
                /\ k >= 1 => s.my_token \in Tokens
                /\ k >= 2 => env[c].sent[1].peerToken \in Tokens
                /\ k = 4 <=> channelReady(s)

\* The whole scenario of C3 has been processed.
C3_Witness == \E c \in DOMAIN cl : env[c].script = 4

\* C4: /connect T1 in phase TokenAssigned stores the peer token, creates the
\* PeerLink as initiator with a data channel, creates an offer, sends one
\* connect envelope to T1 that carries the offer; the phase is Requesting.
C4_ConnectSendsOffer ==
    [][\A c \in DOMAIN cl :
          Phase(cl[c]) = "TokenAssigned" /\ UserLine(c, Cmd(<<"connect", "T1">>)) =>
              /\ cl'[c].peer_token = "T1"
              /\ cl'[c].pc.exists /\ cl'[c].pc.initiator
              /\ cl'[c].dc # None
              /\ cl'[c].pc.local = "offer"
              /\ cl'[c].wsOut = <<Sent("connect", "T1", "offer")>>
              /\ Phase(cl'[c]) = "Requesting"]_vars

\* The steps a client takes without a new input from the server, the peer
\* or the user.
Proceed(c) ==
    \/ WsConnected(c)
    \/ WsSleepDone(c)
    \/ WsReceive(c)
    \/ SendResume(c)
    \/ MainFinally(c)

\* C6: once the exit flag is set the client can always proceed until main
\* has closed the PeerLink and the connection, with no further envelope.
C6_Terminates ==
    \A c \in DOMAIN cl :
        cl[c].should_exit /\ cl[c].mainPc # "exited" => ENABLED Proceed(c)

\* C7: after a lost connection or a failed attempt no new attempt starts
\* before the backoff has been waited, and the token is kept.
C7_Backoff ==
    \A c \in DOMAIN cl :
        cl[c].wsPc = "connecting" /\ ~cl[c].should_exit => ~env[c].backoffDue

\* C8: every answer envelope sent carries the token of the peer of the
\* session (never null).
C8_AnswerAddressed ==
    \A c \in DOMAIN cl :
        \A i \in 1..Len(env[c].sent) :
            env[c].sent[i].type = "answer" => env[c].sent[i].peerToken \in Tokens

\* The session state of the specification
SessionState(s) == <<s.my_token, s.peer_token, Phase(s), channelReady(s)>>

\* C9: a malformed envelope or control message is logged as an error and
\* dropped: session state and transfer map unchanged, nothing raised.
C9_MalformedDropped ==
    [][\A c \in DOMAIN cl :
          (\/ WsReceive(c) /\ Head(env[c].wsIn) \in Malformed
           \/ \E m \in DcMalformed : DcMessage(c, m)) =>
              /\ \E i \in 1..Len(cl'[c].messages) : cl'[c].messages[i] = "ERROR"
              /\ cl'[c].raised = None
              /\ SessionState(cl'[c]) = SessionState(cl[c])
              /\ cl'[c].file_transfers = cl[c].file_transfers]_vars

\* C10: what /send writes to the channel: every file-info carries id, name
\* and size and precedes the chunks of its file, and every chunk has at
\* most 16384 bytes.
C10_SendFraming ==
    \A c \in DOMAIN cl :
        \A i \in 1..Len(env[c].dcSent) :
            LET m == env[c].dcSent[i]
            IN  /\ m.type = "file-info" =>
                    m.id # Absent /\ m.name \in DiskFiles /\ m.size = DiskSize(m.name)
                /\ m.kind = "binary" => m.len <= chunk_size /\ i > 1

HasSent(c, type) == \E i \in 1..Len(env[c].sent) : env[c].sent[i].type = type

\* B alone has asked to connect, A has accepted the request, and nothing
\* is in flight between the two clients any more.
RvQuiet ==
    /\ DOMAIN cl = {"A", "B"}
    /\ cl["B"].peer_token = "T1"
    /\ cl["A"].peer_token = None
    /\ HasSent("A", "accept")
    /\ \A c \in DOMAIN cl :
           /\ cl[c].wsPc = "recv"
           /\ env[c].wsIn = <<>>
           /\ ~CanRelay(c)
           /\ ~CanOpen(c)

\* C5: A has token T1 and B issues /connect T1: B is the side that sends
\* the offer, A the side that sends the answer, and the negotiation does
\* not come to rest before both clients are Connected.
C5_Rendezvous ==
    RvQuiet =>
        /\ HasSent("B", "connect") => HasSent("B", "offer") \/ env["B"].sent[1].sdp = "offer"
        /\ HasSent("A", "answer")
        /\ ~HasSent("A", "offer") /\ ~HasSent("B", "answer")
        /\ Phase(cl["A"]) = "Connected"
        /\ Phase(cl["B"]) = "Connected"

\* C11: a line L without a leading '/' sends exactly one {type: message,
\* content: L} and logs "Me: L" when the channel is open; otherwise nothing
\* is sent, "Me: L" is not logged and the session state is unchanged.
C11_ChatGating ==
    [][\A c \in DOMAIN cl :
          UserLine(c, Chat) =>
              IF channelReady(cl[c])
              THEN /\ cl'[c].dcOut = <<ChatMsg("hello there")>>
                   /\ cl'[c].messages = <<"Me">>
              ELSE /\ cl'[c].dcOut = <<>>
                   /\ cl'[c].messages = <<>>
                   /\ SessionState(cl'[c]) = SessionState(cl[c])]_vars

\* A chat line went out on the open channel.
C11_Witness ==
    \E c \in DOMAIN cl :
        /\ cl[c].dcOut = <<ChatMsg("hello there")>>
        /\ cl[c].messages = <<"Me">>

\* C12: peer_token is set only while the phase is Requesting, Requested,
\* Negotiating or Connected: never before the client has its own token, and
\* never when the /connect that set it did not send its envelope.
C12_PeerTokenPhase ==
    \A c \in DOMAIN cl :
        cl[c].peer_token # None =>
            /\ Phase(cl[c]) \in {"Requesting", "Requested", "Negotiating", "Connected"}
            /\ cl[c].my_token # None
            /\ HasSent(c, "connect")

\* C13: a transfer that is complete has received exactly its size (the
\* counter never exceeds the size).
C13_CompleteExact ==
    \A c \in DOMAIN cl :
        \A i \in 1..Len(cl[c].file_transfers) :
            LET ft == cl[c].file_transfers[i]
            IN  /\ ft.received <= ft.size
                /\ ft.complete => ft.received = ft.size

\* C16: every request from R is answered by exactly one accept addressed
\* to R and a new PeerLink as responder, with no data channel created
\* locally; also when a session exists already, no error is raised or
\* logged, and the one peer_token field is left as it was.
C16_AutoAccept ==
    [][\A c \in DOMAIN cl : \A R \in Tokens :
          /\ cl[c].wsPc = "recv"
          /\ env[c].wsIn # <<>>
          /\ Head(env[c].wsIn) = Envelope("request", R, Absent, Absent)
          /\ WsReceive(c)
          =>  /\ cl'[c].wsOut = <<Sent("accept", R, Absent)>>
              /\ cl'[c].pc = NewPc(FALSE)
              /\ cl'[c].dc = cl[c].dc
              /\ cl'[c].raised = None
              /\ \A i \in 1..Len(cl'[c].messages) : cl'[c].messages[i] # "ERROR"
              /\ cl'[c].peer_token = cl[c].peer_token]_vars

\* A second request has been accepted while the channel of the first
\* session was open.
C16_Witness ==
    \E c \in DOMAIN cl :
        /\ cl[c].wsOut = <<Sent("accept", "T2", Absent)>>
        /\ Len(env[c].sent) >= 3
        /\ env[c].sent[1].type = "accept"
        /\ cl[c].dc = "open"

\* C18: at most one PeerLink is open at any time, none is left open and
\* unreferenced by a later /connect or request, and after shutdown every
\* PeerLink that was created is closed.
C18_OneSession ==
    \A c \in DOMAIN cl :
        /\ cl[c].orphans = 0
        /\ cl[c].mainPc = "exited" /\ cl[c].pc.exists => cl[c].pc.closed

\* C20: a file with bytes, whose file-info and chunks have all been
\* delivered, is complete on the receiver with received equal to its size,
\* whatever was transferred on the channel before it.
C20_CompletesOwn ==
    \A c \in DOMAIN cl :
        \A i \in 1..Len(cl[c].file_transfers) :
            LET ft == cl[c].file_transfers[i]
            IN  ft.size > 0 /\ env[c].own[i] = ft.size =>
                    ft.complete /\ ft.received = ft.size

\* The ice envelopes among the first n envelopes the client has sent.
IceSent(c, n) == Cardinality({i \in 1..n : env[c].sent[i].type = "ice"})

\* C17: every ICE candidate the PeerLink surfaced locally has been sent in
\* an ice envelope by the time the client has shut down.
C17_IceRelayed ==
    \A c \in DOMAIN cl :
        cl[c].mainPc = "exited" => IceSent(c, Len(env[c].sent)) >= env[c].surfaced

\* C19: the handlers start in the order in which the frames arrived, and
\* the handler of a frame starts only when the handler of the frame before
\* it has finished.
C19_InOrder ==
    \A c \in DOMAIN cl :
        LET n == Len(env[c].started)
        IN  /\ n <= Len(env[c].arrived)
            /\ env[c].started = SubSeq(env[c].arrived, 1, n)
            /\ env[c].nDone <= n /\ n <= env[c].nDone + 1
            /\ n = env[c].nDone + 1 <=> cl[c].wsPc = "handling"

\* A handler is suspended while the next frames are waiting, after an
\* earlier handler has finished.
C19_Witness ==
    \E c \in DOMAIN cl :
        /\ cl[c].wsPc = "handling"
        /\ env[c].nDone >= 1
        /\ Len(env[c].wsIn) >= 2
        /\ env[c].wsIn[1] # env[c].wsIn[2]

\* C14: while the user enters nothing and input_loop is polling, the
\* signaling lane can take its next step: a connection attempt that the
\* network has completed is taken up.
C14_NotStarved ==
    \A c \in DOMAIN cl :
        Running(c) /\ cl[c].inPc = "poll" /\ cl[c].wsPc = "connecting" =>
            ENABLED (Yielded(c) /\ WsTask(c))

\* C15: while a send is suspended between two chunks, a line the user
\* enters (/quit in particular) can be processed, and a frame that has
\* arrived can be dispatched, before the send goes on.
C15_YieldsMidSend ==
    \A c \in DOMAIN cl :
        Running(c) /\ cl[c].inPc = "sleep" /\ env[c].nEvents < MaxEvents =>
            /\ ENABLED UserLine(c, Cmd(<<"quit">>))
            /\ env[c].wsIn # <<>> /\ cl[c].wsPc = "recv" => ENABLED WsReceive(c)

\* The transfers that differ between two maps of the same length.
Changed(before, after) ==
    {i \in 1..Len(before) : after[i] # before[i]}

\* C21: a binary chunk changes at most one transfer, one that was not
\* complete, and only its counter and its flag; every other entry stays as
\* it was and no entry is added; with no incomplete transfer (an empty map
\* included) the map is unchanged; nothing is raised or logged.  Stated of
\* what on_message does with a chunk in every reachable state with an open
\* channel.
C21_ChunkFrame ==
    \A c \in DOMAIN cl : \A n \in ChunkLens :
        cl[c].dc = "open" =>
            LET before == cl[c].file_transfers
                s1 == on_message(Enter(cl[c]), DcChunk(n, 0))
                after == s1.file_transfers
            IN  /\ Len(after) = Len(before)
                /\ Cardinality(Changed(before, after)) <= 1
                /\ \A i \in Changed(before, after) :
                       /\ ~before[i].complete
                       /\ after[i].received = before[i].received + n
                       /\ after[i].name = before[i].name
                       /\ after[i].size = before[i].size
                /\ Incomplete(before) = {} => after = before
                /\ s1.raised = None
                /\ s1.messages = <<>>
                /\ [s1 EXCEPT !.file_transfers = before] = Enter(cl[c])

\* A chunk has been counted for one of two incomplete transfers and the
\* other one is untouched.
C21_Witness ==
    \E c \in DOMAIN cl :
        /\ Len(cl[c].file_transfers) = 2
        /\ cl[c].file_transfers[1].received > 0
        /\ ~cl[c].file_transfers[1].complete
        /\ cl[c].file_transfers[2] = FileTransfer("f", 10000)
        /\ cl[c].messages = <<>>

=============================================================================
